---------------------------- MODULE Spec2Model ----------------------------
(***************************************************************************)
(* A model of the two trading engines of the repository.                   *)
(*                                                                         *)
(*   vbs.py   the volatility-breakout engine: a single-threaded main loop  *)
(*            that calls run_strategy('BTCUSDT'), run_strategy('ETHUSDT')  *)
(*            and sleeps.  An exception of any port call leaves the loop.  *)
(*   null.py  the movement/retrace engine: TradingStrategy threads, each   *)
(*            with an outer loop guarded by self.running and an inner      *)
(*            hold-monitoring loop.                                        *)
(*                                                                         *)
(* Prices and balances are integers (USDT).  A quantity is an exact        *)
(* rational [num, den]; Python's round(q, p) is the operator Round.        *)
(* Times are minutes.  An optional value (Python None / pandas NaN) is a   *)
(* sequence of length 0 or 1.                                              *)
(***************************************************************************)
EXTENDS Integers, Sequences, FiniteSets, TLC

VARIABLES
    last_close_time,   \* vbs.py: symbol -> <<>> (None) or <<time of the last profit close>>
    vpc,               \* vbs.py: position of the main loop / of run_strategy
    vsym,              \* vbs.py: the symbol run_strategy is called with
    tick,              \* vbs.py: the locals of the running run_strategy call
    calls,             \* vbs.py: leverage changes and orders sent by this call
    cfg,               \* null.py: instance -> the constructor arguments
    running,           \* null.py: instance -> self.running
    npc,               \* null.py: instance -> position of run()
    loc,               \* null.py: instance -> the locals of run()
    nlog,              \* null.py: instance -> leverage changes and orders of this iteration
    exLeverage         \* the exchange's leverage of SYMBOL: <<>> before any change

vbsVars == <<last_close_time, vpc, vsym, tick, calls>>
nullVars == <<cfg, running, npc, loc, nlog, exLeverage>>
vars == <<last_close_time, vpc, vsym, tick, calls,
          cfg, running, npc, loc, nlog, exLeverage>>

-----------------------------------------------------------------------------
(* Bounds of the model *)

MaxTicks == 4          \* wall-clock readings are 0, TimeStep, .., MaxTicks*TimeStep
TimeStep == 5          \* minutes between two readings of the model's clock

Times == {n * TimeStep : n \in 0..MaxTicks}

-----------------------------------------------------------------------------
(* Values *)

None == <<>>
Some(x) == <<x>>
NaN == <<>>

Symbols == {"BTCUSDT", "ETHUSDT"}

Q(n, d) == [num |-> n, den |-> d]

Pow10(p) == IF p = 3 THEN 1000 ELSE IF p = 2 THEN 100 ELSE IF p = 1 THEN 10 ELSE 1

\* Python round(n/d, p) for n >= 0, d > 0: the nearest multiple of 10^-p,
\* a tie going to the even multiple; the result is k / 10^p.
Round(n, d, p) ==
    LET x == n * Pow10(p)
        k == x \div d
        r == x - k * d
    IN  IF 2 * r > d THEN Q(k + 1, Pow10(p))
        ELSE IF 2 * r = d THEN (IF k % 2 = 0 THEN Q(k, Pow10(p)) ELSE Q(k + 1, Pow10(p)))
        ELSE Q(k, Pow10(p))

IsZero(q) == q.num = 0

\* q is a whole multiple of 10^-p
IsMultipleOfStep(q, p) == (q.num * Pow10(p)) % q.den = 0

-----------------------------------------------------------------------------
(* vbs.py *)

CooldownMinutes == 15
ProfitTargetPct == 5
OrderLeverage == 10
SleepSeconds == 30

\* the arguments of the two run_strategy calls of the main loop
k == Q(1, 2)
position_pct == Q(2, 5)
leverage == 10

\* decimals of round() in calculate_position_size
Precision(symbol) ==
    IF symbol = "BTCUSDT" THEN 3
    ELSE IF symbol = "ETHUSDT" THEN 2
    ELSE 3

\* what the exchange can answer
PrevCandles == {[Open |-> 50000, High |-> 55000, Low |-> 45000]}
LastCandles == {[Open |-> 50000, High |-> h, Low |-> l] :
                    h \in {54500, 55500}, l \in {44500, 45500}}
Windows == {<<>>} \cup {<<c>> : c \in LastCandles}
                  \cup {<<p, c>> : p \in PrevCandles, c \in LastCandles}
PositionAmts == {-800, 0, 800}        \* positionAmt in units of 0.001
EntryPrices == {50000}
Prices == {47500, 50000, 52500}
Balances == {0, 7, 10000}

OrderCall(symbol, side, quantity, ok) ==
    [op |-> "futures_create_order", symbol |-> symbol, side |-> side,
     quantity |-> quantity, leverage |-> 0, ok |-> ok]
LeverageCall(symbol, lev, ok) ==
    [op |-> "futures_change_leverage", symbol |-> symbol, side |-> "",
     quantity |-> Q(0, 1), leverage |-> lev, ok |-> ok]

IsOrder(c) == c.op = "futures_create_order"
Orders(cs) == SelectSeq(cs, IsOrder)

\* abs(position_amt) as a quantity
AbsAmt(amt) == Q(IF amt < 0 THEN -amt ELSE amt, 1000)

NoLatest == [High |-> 0, Low |-> 0, Buy_Signal |-> NaN, Sell_Signal |-> NaN]

\* The locals of run_strategy.  reached is the last step the call came to,
\* raised the exception that ended it ("" when none), data_len is len(data).
NoTick == [symbol |-> "", now |-> 0, time_since_close |-> None, data_len |-> None,
           latest |-> NoLatest, position_amt |-> 0, entry_price |-> 0,
           current_price |-> 0, quantity |-> Q(0, 1), reached |-> "", raised |-> ""]

\* lines 86-96: the shifted columns, the two levels and data.iloc[-1].
\* The levels are kept multiplied by k.den; they are NaN on the first row.
Latest(data) ==
    LET n == Len(data)
        row == data[n]
        Range == IF n >= 2 THEN Some(data[n - 1].High - data[n - 1].Low) ELSE NaN
    IN  [High |-> row.High, Low |-> row.Low,
         Buy_Signal |-> IF Range = NaN THEN NaN
                        ELSE Some(row.Open * k.den + Range[1] * k.num),
         Sell_Signal |-> IF Range = NaN THEN NaN
                         ELSE Some(row.Open * k.den - Range[1] * k.num)]

\* latest['High'] > latest['Buy_Signal']; a comparison with NaN is False
BuyTrigger(latest) ==
    latest.Buy_Signal # NaN /\ latest.High * k.den > latest.Buy_Signal[1]
\* latest['Low'] < latest['Sell_Signal']
SellTrigger(latest) ==
    latest.Sell_Signal # NaN /\ latest.Low * k.den < latest.Sell_Signal[1]

\* lines 38-54 of calculate_position_size
PositionSize(symbol, balance, pct, lev, current_price) ==
    Round(balance * pct.num * lev, pct.den * current_price, Precision(symbol))

\* lines 111-120: roi >= 5
RoiReached(position_amt, entry_price, current_price) ==
    IF position_amt > 0
    THEN (current_price - entry_price) * 100 >= ProfitTargetPct * entry_price
    ELSE (entry_price - current_price) * 100 >= ProfitTargetPct * entry_price

\* line 77; None while last_close_time[symbol] is None
TimeSinceClose(last, now) ==
    IF last = None THEN None ELSE Some(now - last[1])

\* the comparison of line 78 reversed
InCooldownReversed(time_since_close) ==
    time_since_close # None /\ time_since_close[1] > CooldownMinutes

\* lines 76-78: the call returns at once
InCooldown(time_since_close) ==
    time_since_close # None /\ time_since_close[1] < CooldownMinutes

VInit ==
    /\ last_close_time = [s \in Symbols |-> None]
    /\ vpc = "call"
    /\ vsym = "BTCUSDT"
    /\ tick = NoTick
    /\ calls = <<>>

\* An exception is caught nowhere but by the handler of KeyboardInterrupt,
\* which does not match it: it ends the main loop and the program.
Raise(step, exception) ==
    /\ vpc' = "crashed"
    /\ tick' = [tick EXCEPT !.reached = step, !.raised = exception]

\* run_strategy, lines 69-80
RunStrategy ==
    /\ vpc = "call"
    /\ \E now \in Times :
        LET time_since_close == TimeSinceClose(last_close_time[vsym], now) IN
        /\ tick' = [NoTick EXCEPT !.symbol = vsym, !.now = now,
                                  !.time_since_close = time_since_close,
                                  !.reached = "cooldown"]
        /\ calls' = <<>>
        /\ vpc' = IF InCooldown(time_since_close) THEN "return" ELSE "klines"
    /\ UNCHANGED nullVars
    /\ UNCHANGED <<last_close_time, vsym>>

\* lines 83-96
GetFuturesData ==
    /\ vpc = "klines"
    /\ \/ Raise("klines", "PortError")
       \/ \E data \in Windows :
            IF Len(data) = 0
            THEN /\ vpc' = "crashed"               \* data.iloc[-1]
                 /\ tick' = [tick EXCEPT !.data_len = Some(0), !.reached = "klines",
                                         !.raised = "IndexError"]
            ELSE /\ tick' = [tick EXCEPT !.data_len = Some(Len(data)),
                                         !.latest = Latest(data),
                                         !.reached = "klines"]
                 /\ vpc' = "position"
    /\ UNCHANGED nullVars
    /\ UNCHANGED <<last_close_time, vsym, calls>>

\* lines 99-101
GetPosition ==
    /\ vpc = "position"
    /\ \/ Raise("position", "PortError")
       \/ \E amt \in PositionAmts :
            \E entry \in (IF amt = 0 THEN {0} ELSE EntryPrices) :
                /\ tick' = [tick EXCEPT !.position_amt = amt, !.entry_price = entry,
                                        !.reached = "position"]
                /\ vpc' = "ticker"
    /\ UNCHANGED nullVars
    /\ UNCHANGED <<last_close_time, vsym, calls>>

\* lines 104-105
GetTicker ==
    /\ vpc = "ticker"
    /\ \/ Raise("ticker", "PortError")
       \/ \E price \in Prices :
            /\ tick' = [tick EXCEPT !.current_price = price, !.reached = "ticker"]
            /\ vpc' = "size"
    /\ UNCHANGED nullVars
    /\ UNCHANGED <<last_close_time, vsym, calls>>

\* line 108 and calculate_position_size, lines 32-54
CalculatePositionSize ==
    /\ vpc = "size"
    /\ \/ Raise("size", "PortError")
       \/ \E balance \in Balances, price \in Prices :
            /\ tick' = [tick EXCEPT !.quantity =
                            PositionSize(vsym, balance, position_pct, leverage, price),
                                    !.reached = "size"]
            /\ vpc' = "roi"
    /\ UNCHANGED nullVars
    /\ UNCHANGED <<last_close_time, vsym, calls>>

\* place_futures_order, lines 56-67: the calls it makes, in order
place_futures_order(symbol, side, quantity) ==
    << LeverageCall(symbol, OrderLeverage, TRUE),
       OrderCall(symbol, side, quantity, TRUE) >>

\* the profit-target exit sized with the entry quantity of line 108
RoiPlanEntrySized(symbol, t) ==
    IF t.position_amt # 0 /\ RoiReached(t.position_amt, t.entry_price, t.current_price)
    THEN << OrderCall(symbol, IF t.position_amt > 0 THEN "SELL" ELSE "BUY",
                      t.quantity, TRUE) >>
    ELSE << >>

\* lines 119-128: the calls of the profit-target exit
RoiPlan(symbol, t) ==
    IF t.position_amt # 0 /\ RoiReached(t.position_amt, t.entry_price, t.current_price)
    THEN << OrderCall(symbol, IF t.position_amt > 0 THEN "SELL" ELSE "BUY",
                      AbsAmt(t.position_amt), TRUE) >>
    ELSE << >>

\* the decision with the same-side case not excluded: it adds to a position
SignalPlanAddsToPosition(symbol, t) ==
    IF BuyTrigger(t.latest)
    THEN IF t.position_amt < 0
         THEN << OrderCall(symbol, "BUY", AbsAmt(t.position_amt), TRUE) >>
                 \o place_futures_order(symbol, "BUY", t.quantity)
         ELSE place_futures_order(symbol, "BUY", t.quantity)
    ELSE IF SellTrigger(t.latest)
    THEN IF t.position_amt > 0
         THEN << OrderCall(symbol, "SELL", Q(t.position_amt, 1000), TRUE) >>
                 \o place_futures_order(symbol, "SELL", t.quantity)
         ELSE place_futures_order(symbol, "SELL", t.quantity)
    ELSE << >>

\* the decision taken with a flat position treated as the opposite side held
SignalPlanStaleSide(symbol, t) ==
    IF BuyTrigger(t.latest)
    THEN IF t.position_amt <= 0
         THEN << OrderCall(symbol, "BUY", AbsAmt(t.position_amt), TRUE) >>
                 \o place_futures_order(symbol, "BUY", t.quantity)
         ELSE << >>
    ELSE IF SellTrigger(t.latest)
    THEN IF t.position_amt >= 0
         THEN << OrderCall(symbol, "SELL", Q(t.position_amt, 1000), TRUE) >>
                 \o place_futures_order(symbol, "SELL", t.quantity)
         ELSE << >>
    ELSE << >>

\* the reversal with its two steps exchanged: entry first, close second
SignalPlanEntryFirst(symbol, t) ==
    IF BuyTrigger(t.latest)
    THEN IF t.position_amt = 0
         THEN place_futures_order(symbol, "BUY", t.quantity)
         ELSE IF t.position_amt < 0
         THEN place_futures_order(symbol, "BUY", t.quantity)
                 \o << OrderCall(symbol, "BUY", AbsAmt(t.position_amt), TRUE) >>
         ELSE << >>
    ELSE IF SellTrigger(t.latest)
    THEN IF t.position_amt = 0
         THEN place_futures_order(symbol, "SELL", t.quantity)
         ELSE IF t.position_amt > 0
         THEN place_futures_order(symbol, "SELL", t.quantity)
                 \o << OrderCall(symbol, "SELL", Q(t.position_amt, 1000), TRUE) >>
         ELSE << >>
    ELSE << >>

\* lines 135-167: the calls of the entry / reversal decision
SignalPlan(symbol, t) ==
    IF BuyTrigger(t.latest)
    THEN IF t.position_amt = 0
         THEN place_futures_order(symbol, "BUY", t.quantity)
         ELSE IF t.position_amt < 0
         THEN << OrderCall(symbol, "BUY", AbsAmt(t.position_amt), TRUE) >>
                 \o place_futures_order(symbol, "BUY", t.quantity)
         ELSE << >>
    ELSE IF SellTrigger(t.latest)
    THEN IF t.position_amt = 0
         THEN place_futures_order(symbol, "SELL", t.quantity)
         ELSE IF t.position_amt > 0
         THEN << OrderCall(symbol, "SELL", Q(t.position_amt, 1000), TRUE) >>
                 \o place_futures_order(symbol, "SELL", t.quantity)
         ELSE << >>
    ELSE << >>

\* The ways a sequence of port calls can go: all of them succeed, or the
\* i-th raises and the rest is never made.  <<calls made, raised>>
Failed(c) == [c EXCEPT !.ok = FALSE]
Executions(plan) ==
    { <<plan, FALSE>> } \cup
    { << SubSeq(plan, 1, i - 1) \o << Failed(plan[i]) >>, TRUE >> : i \in 1..Len(plan) }

\* lines 110-132
ProfitTarget ==
    /\ vpc = "roi"
    /\ LET plan == RoiPlan(vsym, tick) IN
        IF plan = << >>
        THEN /\ vpc' = "signal"
             /\ tick' = [tick EXCEPT !.reached = "roi"]
             /\ UNCHANGED <<last_close_time, calls>>
        ELSE \E e \in Executions(plan) :
                /\ calls' = calls \o e[1]
                /\ IF e[2]
                   THEN Raise("roi", "PortError") /\ UNCHANGED last_close_time
                   ELSE /\ last_close_time' =
                              [last_close_time EXCEPT ![vsym] = Some(tick.now)]
                        /\ tick' = [tick EXCEPT !.reached = "roi"]
                        /\ vpc' = "return"
    /\ UNCHANGED nullVars
    /\ UNCHANGED vsym

\* lines 134-167
EntrySignal ==
    /\ vpc = "signal"
    /\ \E e \in Executions(SignalPlan(vsym, tick)) :
        /\ calls' = calls \o e[1]
        /\ IF e[2]
           THEN Raise("signal", "PortError")
           ELSE /\ tick' = [tick EXCEPT !.reached = "signal"]
                /\ vpc' = "return"
    /\ UNCHANGED nullVars
    /\ UNCHANGED <<last_close_time, vsym>>

\* the main loop, lines 172-180
NextSymbol ==
    /\ vpc = "return"
    /\ IF vsym = "BTCUSDT"
       THEN vsym' = "ETHUSDT" /\ vpc' = "call"
       ELSE vsym' = vsym /\ vpc' = "sleep"
    /\ UNCHANGED nullVars
    /\ UNCHANGED <<last_close_time, tick, calls>>

Sleep ==
    /\ vpc = "sleep"
    /\ vsym' = "BTCUSDT"
    /\ vpc' = "call"
    /\ UNCHANGED nullVars
    /\ UNCHANGED <<last_close_time, tick, calls>>

VNext ==
    \/ RunStrategy
    \/ GetFuturesData
    \/ GetPosition
    \/ GetTicker
    \/ CalculatePositionSize
    \/ ProfitTarget
    \/ EntrySignal
    \/ NextSymbol
    \/ Sleep

-----------------------------------------------------------------------------
(* null.py *)

SYMBOL == "BTCUSDT"

MaxHold == 3           \* max_hold_bars of an instance is 0..MaxHold
MaxWindow == 3         \* get_klines answers with 0..MaxWindow candles

Threads == {"Strategy1", "Strategy2"}

\* main, lines 192-209
MainConfig(t) ==
    IF t = "Strategy1"
    THEN [interval |-> "4h", leverage |-> 10, position_size_percent |-> Q(1, 2),
          movement_threshold |-> Q(3, 100), max_hold_bars |-> 6]
    ELSE [interval |-> "1m", leverage |-> 20, position_size_percent |-> Q(1, 4),
          movement_threshold |-> Q(15, 1000), max_hold_bars |-> 30]

\* the constructor arguments the model runs an instance with
Configs(t) == {[MainConfig(t) EXCEPT !.max_hold_bars = m] : m \in 0..MaxHold}

\* what the exchange can answer
NullPrices == {475, 500, 525}
NullBalances == {0, 10000}

\* the close column of what get_klines can answer
CloseWindows == UNION {[1..n -> NullPrices] : n \in 0..MaxWindow}

\* how a port call ends: it returns, it raises BinanceAPIException, or it
\* raises another exception (a transport error)
Outcomes == {"ok", "api_error", "error"}

\* a port call as the exchange receives it: exchange_leverage is the leverage
\* of SYMBOL at the exchange when the call arrives
NCall(c, run) ==
    [op |-> c.op, symbol |-> c.symbol, side |-> c.side, quantity |-> c.quantity,
     leverage |-> c.leverage, ok |-> c.ok, after_stop |-> ~run,
     exchange_leverage |-> exLeverage]

NoLoc == [movement |-> Q(0, 1), last_close |-> 0, current_price |-> 0,
          position_size |-> Q(0, 1), side |-> "", place_running |-> TRUE,
          order |-> "unset",
          entry_price |-> 0, highest |-> 0, lowest |-> 0, bars_held |-> 0]

Abs(x) == IF x < 0 THEN -x ELSE x
Max(a, b) == IF a >= b THEN a ELSE b
Min(a, b) == IF a <= b THEN a ELSE b

\* calculate_movement, lines 39-46; data is the close column.
\* recent.iloc[0] raises IndexError when data.tail(num_bars) is empty.
MovementRaises(data, num_bars) ==
    /\ ~(Len(data) < num_bars)
    /\ num_bars = 0
calculate_movement(data, num_bars) ==
    IF Len(data) < num_bars
    THEN Q(0, 1)
    ELSE LET recent == SubSeq(data, Len(data) - num_bars + 1, Len(data))
             start == recent[1]
             end == recent[Len(recent)]
         IN  Q(end - start, start)

\* line 123: abs(movement) >= self.movement_threshold
OverThreshold(movement, threshold) ==
    Abs(movement.num) * threshold.den >= threshold.num * movement.den

\* line 124: close - (movement / 2) * close
RetraceLevel(movement, close) ==
    Q(close * (2 * movement.den - movement.num), 2 * movement.den)

\* line 128
Retraced(movement, current_price, retrace_level) ==
    \/ movement.num > 0 /\ current_price * retrace_level.den <= retrace_level.num
    \/ movement.num < 0 /\ current_price * retrace_level.den >= retrace_level.num

\* line 132
EntrySide(movement) == IF movement.num < 0 THEN "BUY" ELSE "SELL"

\* get_position_size, lines 48-49, and line 130
get_position_size(asset, percent) == Q(asset * percent.num, percent.den)
EntrySize(balance, percent, current_price, lev) ==
    LET a == get_position_size(balance, percent)
    IN  Q(a.num * lev, a.den * current_price)

\* lines 147 and 156: the trailing exit, after highest and lowest were updated
TrailingExit(side, current_price, highest, lowest) ==
    \/ side = "BUY" /\ current_price >= highest
    \/ side = "SELL" /\ current_price <= lowest

Opposite(side) == IF side = "BUY" THEN "SELL" ELSE "BUY"

\* the test of line 170 left out: the forced close follows every hold loop
TimedOutAlways(bars_held, max_hold_bars) == TRUE

\* the comparison of line 170 made strict
TimedOutStrict(bars_held, max_hold_bars) == bars_held > max_hold_bars

\* line 170: if bars_held >= self.max_hold_bars
TimedOut(bars_held, max_hold_bars) == bars_held >= max_hold_bars

\* the instances of `started' are constructed with any of their Configs
\* what place_order returns, lines 64 and 67, for the outcome of its port call
PlaceOrderResult(out) == IF out = "ok" THEN "dict" ELSE "None"

\* line 135 left out: the hold loop follows every place_order
AfterPlaceOrderUnchecked(order) == "hold"

\* line 135: if order; a None skips to the sleep of line 180
AfterPlaceOrder(order) == IF order = "dict" THEN "hold" ELSE "sleep"

NInit(started) ==
    /\ cfg \in {f \in [Threads -> UNION {Configs(t) \cup {MainConfig(t)} : t \in Threads}] :
                    \A t \in Threads :
                        IF t \in started THEN f[t] \in Configs(t) ELSE f[t] = MainConfig(t)}
    /\ running = [t \in Threads |-> TRUE]
    /\ npc = [t \in Threads |-> "new"]
    /\ loc = [t \in Threads |-> NoLoc]
    /\ nlog = [t \in Threads |-> <<>>]
    /\ exLeverage = None

Goto(t, label) == npc' = [npc EXCEPT ![t] = label]
Log(t, c) == nlog' = [nlog EXCEPT ![t] = Append(@, NCall(c, running[t]))]

\* Thread.start(), lines 212-213
Start(t) ==
    /\ npc[t] = "new"
    /\ Goto(t, "loop")
    /\ UNCHANGED <<cfg, running, loc, nlog, exLeverage>>
    /\ UNCHANGED vbsVars

\* stop(), lines 186-188
Stop(t) ==
    /\ npc[t] \notin {"new", "exit"}
    /\ running[t]
    /\ running' = [running EXCEPT ![t] = FALSE]
    /\ UNCHANGED <<cfg, npc, loc, nlog, exLeverage>>
    /\ UNCHANGED vbsVars

\* line 114 as while True: the flag of stop() is never read
LoopIgnoresStop(t) ==
    /\ npc[t] = "loop"
    /\ Goto(t, "klines")
    /\ loc' = [loc EXCEPT ![t] = NoLoc]
    /\ nlog' = [nlog EXCEPT ![t] = <<>>]
    /\ UNCHANGED <<cfg, running, exLeverage>>
    /\ UNCHANGED vbsVars

\* line 114: while self.running
Loop(t) ==
    /\ npc[t] = "loop"
    /\ IF running[t] THEN Goto(t, "klines") ELSE Goto(t, "exit")
    /\ loc' = [loc EXCEPT ![t] = NoLoc]
    /\ nlog' = [nlog EXCEPT ![t] = <<>>]
    /\ UNCHANGED <<cfg, running, exLeverage>>
    /\ UNCHANGED vbsVars

\* lines 116-123: get_historical_data and calculate_movement
GetHistoricalData(t) ==
    /\ npc[t] = "klines"
    /\ \/ Goto(t, "sleep5") /\ UNCHANGED loc        \* api_error: empty frame, line 118
       \/ Goto(t, "except") /\ UNCHANGED loc        \* another exception, line 182
       \/ \E data \in CloseWindows :
            IF Len(data) = 0
            THEN Goto(t, "sleep5") /\ UNCHANGED loc
            ELSE IF MovementRaises(data, cfg[t].max_hold_bars)
            THEN Goto(t, "except") /\ UNCHANGED loc
            ELSE LET movement == calculate_movement(data, cfg[t].max_hold_bars) IN
                 /\ loc' = [loc EXCEPT ![t].movement = movement,
                                       ![t].last_close = data[Len(data)]]
                 /\ IF OverThreshold(movement, cfg[t].movement_threshold)
                    THEN Goto(t, "ticker")
                    ELSE Goto(t, "sleep")
    /\ UNCHANGED <<cfg, running, nlog, exLeverage>>
    /\ UNCHANGED vbsVars

\* lines 124-128
GetSymbolTicker(t) ==
    /\ npc[t] = "ticker"
    /\ \/ Goto(t, "except") /\ UNCHANGED loc
       \/ \E price \in NullPrices :
            /\ loc' = [loc EXCEPT ![t].current_price = price]
            /\ IF Retraced(loc[t].movement, price,
                           RetraceLevel(loc[t].movement, loc[t].last_close))
               THEN Goto(t, "balance")
               ELSE Goto(t, "sleep")
    /\ UNCHANGED <<cfg, running, nlog, exLeverage>>
    /\ UNCHANGED vbsVars

\* lines 129-132 and get_account_balance, lines 69-79
GetAccountBalance(t) ==
    /\ npc[t] = "balance"
    /\ \/ Goto(t, "except") /\ UNCHANGED loc
       \/ \E balance \in NullBalances \cup {0} :   \* 0: no USDT item, or api_error
            /\ loc' = [loc EXCEPT
                        ![t].position_size =
                            EntrySize(balance, cfg[t].position_size_percent,
                                      loc[t].current_price, cfg[t].leverage),
                        ![t].side = EntrySide(loc[t].movement)]
            /\ Goto(t, "leverage")
    /\ UNCHANGED <<cfg, running, nlog, exLeverage>>
    /\ UNCHANGED vbsVars

\* lines 52-54 when the exchange keeps no leverage per symbol: the change is
\* answered but the leverage of SYMBOL stays what it was
ChangeLeverageNoEffect(t) ==
    /\ npc[t] = "leverage"
    /\ \E out \in Outcomes :
        /\ Log(t, LeverageCall(SYMBOL, cfg[t].leverage, out = "ok"))
        /\ exLeverage' = exLeverage
        /\ loc' = [loc EXCEPT ![t].place_running = running[t],
                              ![t].order = IF out = "api_error"
                                           THEN PlaceOrderResult(out) ELSE @]
        /\ Goto(t, IF out = "ok" THEN "order"
                   ELSE IF out = "api_error"
                   THEN AfterPlaceOrder(PlaceOrderResult(out))
                   ELSE "except")
    /\ UNCHANGED <<cfg, running>>
    /\ UNCHANGED vbsVars

\* place_order, lines 52-54: futures_change_leverage
ChangeLeverage(t) ==
    /\ npc[t] = "leverage"
    /\ \E out \in Outcomes :
        /\ Log(t, LeverageCall(SYMBOL, cfg[t].leverage, out = "ok"))
        /\ exLeverage' = IF out = "ok" THEN Some(cfg[t].leverage) ELSE exLeverage
        /\ loc' = [loc EXCEPT ![t].place_running = running[t],
                              ![t].order = IF out = "api_error"
                                           THEN PlaceOrderResult(out) ELSE @]
        /\ Goto(t, IF out = "ok" THEN "order"
                   ELSE IF out = "api_error"
                   THEN AfterPlaceOrder(PlaceOrderResult(out))
                   ELSE "except")
    /\ UNCHANGED <<cfg, running>>
    /\ UNCHANGED vbsVars

\* place_order, lines 57-67, and lines 135-139
CreateEntryOrder(t) ==
    /\ npc[t] = "order"
    /\ \E out \in Outcomes :
        /\ nlog' = [nlog EXCEPT ![t] = Append(@,
                        NCall(OrderCall(SYMBOL, loc[t].side, loc[t].position_size,
                                        out = "ok"),
                              loc[t].place_running))]
        /\ IF out = "ok"
           THEN /\ loc' = [loc EXCEPT ![t].order = PlaceOrderResult(out),
                                      ![t].entry_price = loc[t].current_price,
                                      ![t].highest = loc[t].current_price,
                                      ![t].lowest = loc[t].current_price,
                                      ![t].bars_held = 0]
                /\ Goto(t, AfterPlaceOrder(PlaceOrderResult(out)))
           ELSE IF out = "api_error"
           THEN /\ loc' = [loc EXCEPT ![t].order = PlaceOrderResult(out)]
                /\ Goto(t, AfterPlaceOrder(PlaceOrderResult(out)))
           ELSE /\ UNCHANGED loc
                /\ Goto(t, "except")
    /\ UNCHANGED <<cfg, running, exLeverage>>
    /\ UNCHANGED vbsVars

\* line 141: while bars_held < self.max_hold_bars
HoldLoop(t) ==
    /\ npc[t] = "hold"
    /\ IF loc[t].bars_held < cfg[t].max_hold_bars
       THEN Goto(t, "holdticker")
       ELSE Goto(t, "timeout")
    /\ UNCHANGED <<cfg, running, loc, nlog, exLeverage>>
    /\ UNCHANGED vbsVars

\* lines 142-147, 156 and 166
HoldTicker(t) ==
    /\ npc[t] = "holdticker"
    /\ \/ Goto(t, "except") /\ UNCHANGED loc
       \/ \E price \in NullPrices :
            LET highest == Max(loc[t].highest, price)
                lowest == Min(loc[t].lowest, price)
            IN  IF TrailingExit(loc[t].side, price, highest, lowest)
                THEN /\ loc' = [loc EXCEPT ![t].current_price = price,
                                           ![t].highest = highest,
                                           ![t].lowest = lowest]
                     /\ Goto(t, "trail")
                ELSE /\ loc' = [loc EXCEPT ![t].current_price = price,
                                           ![t].highest = highest,
                                           ![t].lowest = lowest,
                                           ![t].bars_held = @ + 1]
                     /\ Goto(t, "holdsleep")
    /\ UNCHANGED <<cfg, running, nlog, exLeverage>>
    /\ UNCHANGED vbsVars

\* lines 148-155 and 157-164: the closing order of the trailing exit, break
TrailingClose(t) ==
    /\ npc[t] = "trail"
    /\ \E ok \in BOOLEAN :
        /\ Log(t, OrderCall(SYMBOL, Opposite(loc[t].side), loc[t].position_size, ok))
        /\ Goto(t, IF ok THEN "timeout" ELSE "except")
    /\ UNCHANGED <<cfg, running, loc, exLeverage>>
    /\ UNCHANGED vbsVars

\* line 167: time.sleep(INTERVAL_TO_SECONDS(self.interval) / self.max_hold_bars)
HoldSleep(t) ==
    /\ npc[t] = "holdsleep"
    /\ Goto(t, "hold")
    /\ UNCHANGED <<cfg, running, loc, nlog, exLeverage>>
    /\ UNCHANGED vbsVars

\* lines 170-178: the forced close after max_hold_bars
ForceClose(t) ==
    /\ npc[t] = "timeout"
    /\ IF TimedOut(loc[t].bars_held, cfg[t].max_hold_bars)
       THEN \E ok \in BOOLEAN :
                /\ Log(t, OrderCall(SYMBOL, Opposite(loc[t].side),
                                    loc[t].position_size, ok))
                /\ Goto(t, IF ok THEN "sleep" ELSE "except")
       ELSE /\ Goto(t, "sleep")
            /\ UNCHANGED nlog
    /\ UNCHANGED <<cfg, running, loc, exLeverage>>
    /\ UNCHANGED vbsVars

\* line 180: time.sleep(INTERVAL_TO_SECONDS(self.interval))
IntervalSleep(t) ==
    /\ npc[t] = "sleep"
    /\ Goto(t, "loop")
    /\ UNCHANGED <<cfg, running, loc, nlog, exLeverage>>
    /\ UNCHANGED vbsVars

\* lines 118-119: time.sleep(5); continue
EmptySleep(t) ==
    /\ npc[t] = "sleep5"
    /\ Goto(t, "loop")
    /\ UNCHANGED <<cfg, running, loc, nlog, exLeverage>>
    /\ UNCHANGED vbsVars

\* lines 182-184: except Exception: print, time.sleep(5)
Except(t) ==
    /\ npc[t] = "except"
    /\ Goto(t, "loop")
    /\ UNCHANGED <<cfg, running, loc, nlog, exLeverage>>
    /\ UNCHANGED vbsVars

Run(t) ==
    \/ Loop(t)
    \/ GetHistoricalData(t)
    \/ GetSymbolTicker(t)
    \/ GetAccountBalance(t)
    \/ ChangeLeverage(t)
    \/ CreateEntryOrder(t)
    \/ HoldLoop(t)
    \/ HoldTicker(t)
    \/ TrailingClose(t)
    \/ HoldSleep(t)
    \/ ForceClose(t)
    \/ IntervalSleep(t)
    \/ EmptySleep(t)
    \/ Except(t)

\* one TradingStrategy instance
NNext ==
    \/ Start("Strategy1")
    \/ Stop("Strategy1")
    \/ Run("Strategy1")

-----------------------------------------------------------------------------
(* Specifications *)

\* vbs.py run as a program
InitVbs == VInit /\ NInit({})
SpecVbs == InitVbs /\ [][VNext]_vars

\* null.py: one TradingStrategy instance from construction to the end of run()
InitNull == VInit /\ NInit({"Strategy1"})
SpecNull == InitNull /\ [][NNext]_vars

\* null.py as main() runs it, lines 190-213: both instances started on SYMBOL
\* with the leverages of main, their threads interleaved at every port call
\* (symbol, interval, leverage and position_size_percent as in main; the
\* hold of two bars and the threshold of 10 % keep the product of the two
\* instances small: one window shape, 475 up to 525, then opens a position)
HoldBarsOfBoth == 2
ThresholdOfBoth == Q(1, 10)
ConfigOfBoth(t) ==
    [MainConfig(t) EXCEPT !.max_hold_bars = HoldBarsOfBoth,
                          !.movement_threshold = ThresholdOfBoth]
InitBoth ==
    /\ VInit
    /\ cfg = [t \in Threads |-> ConfigOfBoth(t)]
    /\ running = [t \in Threads |-> TRUE]
    /\ npc = [t \in Threads |-> "new"]
    /\ loc = [t \in Threads |-> NoLoc]
    /\ nlog = [t \in Threads |-> <<>>]
    /\ exLeverage = None
NextBoth == \E t \in Threads : Start(t) \/ Run(t)
SpecBoth == InitBoth /\ [][NextBoth]_vars

\* the same instance when its thread keeps being scheduled and every port
\* call and every time.sleep of run() returns
SpecNullFair == SpecNull /\ WF_vars(Run("Strategy1"))

TypeOK ==
    /\ vpc \in {"call", "klines", "position", "ticker", "size", "roi", "signal",
                "return", "sleep", "crashed"}
    /\ \A t \in Threads :
        npc[t] \in {"new", "loop", "klines", "ticker", "balance", "leverage", "order",
                    "hold", "holdticker", "trail", "holdsleep", "timeout", "sleep",
                    "sleep5", "except", "exit"}

-----------------------------------------------------------------------------
(* Properties of vbs.py *)

\* the profit of the position of this call is at least 5 %
ProfitAtLeast5 ==
    \/ /\ tick.position_amt > 0
       /\ (tick.current_price - tick.entry_price) * 100 >= 5 * tick.entry_price
    \/ /\ tick.position_amt < 0
       /\ (tick.entry_price - tick.current_price) * 100 >= 5 * tick.entry_price

\* the order that closes the position of this call, accepted or rejected
IsCloseOfPosition(c) ==
    \E ok \in BOOLEAN :
        c = OrderCall(tick.symbol, IF tick.position_amt > 0 THEN "SELL" ELSE "BUY",
                      AbsAmt(tick.position_amt), ok)

\* C1: a call of run_strategy(symbol) that begins while last_close_time[symbol]
\* is set and less than 15 minutes before now returns at once: it makes no
\* order and no leverage change, whatever now is.
C1_CooldownSubmitsNothing ==
    [][ ( /\ vpc = "call" /\ vpc' # "call"
          /\ last_close_time[vsym] # None
          /\ tick'.now - last_close_time[vsym][1] < 15 )
        => ( vpc' = "return" /\ calls' = << >> /\ tick'.reached = "cooldown" ) ]_vars

C1_Witness ==
    /\ vpc = "return" /\ tick.reached = "cooldown"
    /\ last_close_time[tick.symbol] # None
    /\ tick.now - last_close_time[tick.symbol][1] = 10
    /\ calls = << >>

\* C3 as stated: whenever the position is non-zero and its ROI is at least
\* 5 %, the call makes exactly one order, the close of the whole position,
\* and last_close_time[symbol] is this call's now.
C3_Original ==
    (tick.reached \in {"roi", "signal"} /\ ProfitAtLeast5)
        => /\ Len(calls) = 1
           /\ IsCloseOfPosition(calls[1])
           /\ last_close_time[tick.symbol] = Some(tick.now)

\* C3, amended: whenever the position is non-zero and its ROI is at least
\* 5 %, the call makes exactly one order, the close of the whole position,
\* and nothing else (no entry, no leverage change) whatever the breakout
\* signal is; if the exchange accepts that order last_close_time[symbol] is
\* this call's now.
C3_ProfitTargetClose ==
    (tick.reached \in {"roi", "signal"} /\ ProfitAtLeast5)
        => /\ Len(calls) = 1
           /\ IsCloseOfPosition(calls[1])
           /\ calls[1].ok => last_close_time[tick.symbol] = Some(tick.now)
           /\ calls[1].ok => vpc # "crashed"
           /\ tick.reached = "roi"

C3_Witness ==
    /\ vpc = "return" /\ tick.reached = "roi" /\ ProfitAtLeast5
    /\ BuyTrigger(tick.latest) /\ ~SellTrigger(tick.latest)
    /\ tick.position_amt < 0
    /\ Len(calls) = 1 /\ calls[1].ok
    /\ last_close_time[tick.symbol] = Some(tick.now)

\* the breakout signal is opposite to the position held
OppositeSignal ==
    \/ tick.position_amt < 0 /\ BuyTrigger(tick.latest)
    \/ tick.position_amt > 0 /\ SellTrigger(tick.latest) /\ ~BuyTrigger(tick.latest)
SignalSide == IF tick.position_amt < 0 THEN "BUY" ELSE "SELL"

\* C4: when the call comes to the entry decision with a signal opposite to
\* the position, its first call is the offsetting order for the whole
\* abs(position_amt); the entry order (of the signal's side, sized by
\* calculate_position_size) is made only after that order was accepted, and it
\* is made whenever no call raises.
C4_CloseBeforeEntry ==
    (tick.reached = "signal" /\ OppositeSignal)
        => /\ Len(calls) >= 1
           /\ \E ok \in BOOLEAN :
                calls[1] = OrderCall(tick.symbol, SignalSide, AbsAmt(tick.position_amt), ok)
           /\ Len(Orders(calls)) <= 2
           /\ Len(Orders(calls)) = 2
                => /\ calls[1].ok
                   /\ \E ok \in BOOLEAN :
                        calls[Len(calls)] =
                            OrderCall(tick.symbol, SignalSide, tick.quantity, ok)
           /\ vpc # "crashed" => Len(Orders(calls)) = 2

C4_Witness ==
    /\ tick.reached = "signal" /\ OppositeSignal /\ vpc = "return"
    /\ tick.position_amt > 0
    /\ Len(calls) = 3
    /\ calls[1] = OrderCall(tick.symbol, "SELL", Q(800, 1000), TRUE)
    /\ calls[3] = OrderCall(tick.symbol, "SELL", tick.quantity, TRUE)

\* C6 as stated, for vbs.py: no failure of a port call ends the main loop.
C6_LoopSurvivesFailure ==
    vpc # "crashed"

\* C7 as stated, for vbs.py: no order of quantity zero is submitted.
C7_NoZeroQuantityOrder ==
    \A i \in DOMAIN calls :
        IsOrder(calls[i]) => ~IsZero(calls[i].quantity)

\* C9 as stated, for vbs.py: with fewer than 2 candles (none included) the
\* call raises no IndexError and its entry decision makes no order.
C9_ShortWindowNoSignal ==
    (tick.data_len # None /\ tick.data_len[1] < 2)
        => /\ tick.raised # "IndexError"
           /\ tick.reached = "signal" => calls = << >>

\* C10 as stated: when both triggers fire on the latest candle, or neither,
\* the entry decision makes no call at all.
C10_BothOrNeitherNoSignal ==
    ( /\ tick.reached = "signal"
      /\ BuyTrigger(tick.latest) = SellTrigger(tick.latest) )
        => calls = << >>

-----------------------------------------------------------------------------
(* Properties of null.py *)

\* the instance opened a position in this iteration of its outer loop
Entered(t) == loc[t].entry_price # 0

\* C2: an instance that opened a position and whose bars_held reached
\* max_hold_bars has, when it leaves the iteration (for the interval sleep or
\* the exception handler) and before the next iteration starts, made exactly
\* one order after its entry: a market order of the opposite side and the
\* entry quantity, whatever the prices were.
C2_ForceCloseAtMaxHold ==
    \A t \in Threads :
        ( /\ Entered(t)
          /\ loc[t].bars_held >= cfg[t].max_hold_bars
          /\ npc[t] \in {"sleep", "except", "loop"} )
            => LET os == Orders(nlog[t]) IN
               /\ Len(os) = 2
               /\ os[1].ok /\ os[1].side = loc[t].side
               /\ os[1].quantity = loc[t].position_size
               /\ os[2].side = Opposite(os[1].side)
               /\ os[2].quantity = os[1].quantity
               /\ os[2].symbol = os[1].symbol
               /\ npc[t] = "sleep" => os[2].ok
               /\ npc[t] = "except" => ~os[2].ok

C2_Witness ==
    /\ npc["Strategy1"] = "sleep" /\ Entered("Strategy1")
    /\ cfg["Strategy1"].max_hold_bars = 2
    /\ loc["Strategy1"].bars_held = 2
    /\ loc["Strategy1"].side = "BUY"
    /\ Len(nlog["Strategy1"]) = 3
    /\ nlog["Strategy1"][3].side = "SELL" /\ nlog["Strategy1"][3].ok

\* C5 as stated: no order is submitted once stop() was called (the entry
\* order of a place_order call begun before stop() excepted).
C5_NoOrderAfterStop ==
    \A t \in Threads :
        \A i \in DOMAIN nlog[t] :
            IsOrder(nlog[t][i]) => ~nlog[t][i].after_stop

\* C8 as stated: every order quantity is a non-negative whole multiple of
\* the precision step of its symbol.
C8_QuantityMultipleOfStep ==
    /\ \A i \in DOMAIN calls :
        IsOrder(calls[i]) =>
            /\ calls[i].quantity.num >= 0
            /\ IsMultipleOfStep(calls[i].quantity, Precision(calls[i].symbol))
    /\ \A t \in Threads :
        \A i \in DOMAIN nlog[t] :
            IsOrder(nlog[t][i]) =>
                /\ nlog[t][i].quantity.num >= 0
                /\ IsMultipleOfStep(nlog[t][i].quantity, Precision(nlog[t][i].symbol))

\* TradingStrategy has the attributes of lines 104-110 and run() the locals
\* of lines 116-171: none of them holds the time of a close, and nothing of
\* null.py reads one.
LastCloseTimeOf(t) == None

\* C11 as stated: an instance that opened a position and force-closed it at
\* the timeout is Flat again with the time of the close recorded.
C11_RoundTripSetsLastCloseTime ==
    \A t \in Threads :
        ( /\ Entered(t) /\ npc[t] = "sleep"
          /\ loc[t].bars_held >= cfg[t].max_hold_bars )
            => LastCloseTimeOf(t) # None

\* the successful orders of a log, BUY counted positive and SELL negative,
\* in units of 1 / quantity.den (one iteration uses one quantity)
RECURSIVE SignedSum(_)
SignedSum(log) ==
    IF log = << >> THEN 0
    ELSE LET c == log[Len(log)]
             rest == SignedSum(SubSeq(log, 1, Len(log) - 1))
         IN  IF IsOrder(c) /\ c.ok
             THEN rest + (IF c.side = "BUY" THEN c.quantity.num ELSE -c.quantity.num)
             ELSE rest

\* the instance is outside lines 136-178: it treats itself as Flat
OutsideHold(t) == npc[t] \notin {"hold", "holdticker", "trail", "holdsleep", "timeout"}

\* C12 as stated: whenever an instance is outside its hold loop the signed
\* sum of the orders it submitted successfully is zero.
C12_FlatAgreesWithBroker ==
    \A t \in Threads :
        OutsideHold(t) => SignedSum(nlog[t]) = 0

\* C13 as stated: a position opened after an upward movement is a Long (BUY),
\* one opened after a downward movement a Short (SELL).
C13_UpwardMovementOpensLong ==
    \A t \in Threads :
        Entered(t) =>
            /\ loc[t].movement.num > 0 => loc[t].side = "BUY"
            /\ loc[t].movement.num < 0 => loc[t].side = "SELL"

\* C14 as stated: a sub-tick of the hold loop ends in the trailing close
\* exactly when its price is strictly beyond every price seen since entry
\* (above the running high for a Long, below the running low for a Short).
C14_TrailingStrictExtreme ==
    [][ \A t \in Threads :
          (npc[t] = "holdticker" /\ npc'[t] \in {"trail", "holdsleep"})
            => ( npc'[t] = "trail"
                   <=> IF loc[t].side = "BUY"
                       THEN loc'[t].current_price > loc[t].highest
                       ELSE loc'[t].current_price < loc[t].lowest ) ]_vars

\* C15: an instance that opened a position and came to the interval sleep of
\* line 180 (no port call failed) has made exactly one order after its entry,
\* accepted, of the opposite side and the entry quantity: the trailing close
\* or the forced close, never both; while it holds it has made none.
C15_ExactlyOneClose ==
    \A t \in Threads :
        LET os == Orders(nlog[t]) IN
        /\ (Entered(t) /\ npc[t] = "sleep")
            => /\ Len(os) = 2
               /\ os[1].ok /\ os[2].ok
               /\ os[2].side = Opposite(os[1].side)
               /\ os[2].quantity = os[1].quantity
               /\ os[2].symbol = os[1].symbol
        /\ (Entered(t) /\ npc[t] \in {"hold", "holdticker", "holdsleep", "trail"})
            => Len(os) = 1

C15_Witness ==
    /\ npc["Strategy1"] = "sleep" /\ Entered("Strategy1")
    /\ loc["Strategy1"].bars_held = 1
    /\ cfg["Strategy1"].max_hold_bars = 3
    /\ loc["Strategy1"].side = "SELL"
    /\ Len(nlog["Strategy1"]) = 3
    /\ nlog["Strategy1"][3].side = "BUY" /\ nlog["Strategy1"][3].ok

-----------------------------------------------------------------------------
(* More properties of vbs.py *)

BuySignal == BuyTrigger(tick.latest)
SellSignal == SellTrigger(tick.latest) /\ ~BuyTrigger(tick.latest)

\* the signal points the way of the position held
SameSideSignal ==
    \/ tick.position_amt > 0 /\ BuySignal
    \/ tick.position_amt < 0 /\ SellSignal

\* calls[i] is an entry order: the order of place_futures_order, which
\* follows its leverage change
IsEntryAt(i) ==
    /\ i > 1
    /\ IsOrder(calls[i])
    /\ calls[i - 1].op = "futures_change_leverage"

\* an entry order never adds to the position: a BUY needs a position that is
\* flat, or short and closed by an accepted first order; a SELL the reverse
EntriesDoNotAdd ==
    \A i \in DOMAIN calls :
        IsEntryAt(i) =>
            /\ calls[i].side = "BUY" => tick.position_amt <= 0
            /\ calls[i].side = "SELL" => tick.position_amt >= 0
            /\ tick.position_amt # 0
                => /\ i = 3
                   /\ calls[1] = OrderCall(tick.symbol, calls[i].side,
                                           AbsAmt(tick.position_amt), TRUE)

\* C19 as stated, for the calls that no exception ended: entries never add to
\* the position, and a call with a buy signal while long, or a sell signal
\* while short, makes no order.
C19_Original ==
    (tick.reached \in {"roi", "signal"} /\ vpc # "crashed") =>
        /\ EntriesDoNotAdd
        /\ SameSideSignal => calls = << >>

\* C19, amended: entries never add to the position, and a call with a buy
\* signal while long, or a sell signal while short, makes no entry order and
\* no leverage change; the one order it can make is the profit-target close
\* of lines 119-128, when the ROI is at least 5 %.
C19_NeverAddsToPosition ==
    tick.reached \in {"roi", "signal"} =>
        /\ EntriesDoNotAdd
        /\ SameSideSignal =>
            \/ calls = << >> /\ ~ProfitAtLeast5
            \/ /\ ProfitAtLeast5
               /\ Len(calls) = 1
               /\ IsCloseOfPosition(calls[1])

C19_Witness ==
    /\ vpc = "return" /\ tick.reached = "signal"
    /\ tick.position_amt > 0 /\ BuySignal /\ ~SellTrigger(tick.latest)
    /\ ~ProfitAtLeast5
    /\ calls = << >>


\* C20: when place_order returned None in this iteration (the exchange
\* rejected the leverage change or the entry order), the instance is in the
\* interval sleep of line 180 or back at the loop test: it has no entry
\* price, never reached the hold loop, and the rejected call is the last call
\* of the iteration, so no trailing or force-close order was made.
C20_RejectedEntryStaysFlat ==
    \A t \in Threads :
        loc[t].order = "None"
            => /\ npc[t] \in {"sleep", "loop"}
               /\ ~Entered(t)
               /\ loc[t].bars_held = 0
               /\ Len(nlog[t]) \in {1, 2}
               /\ ~nlog[t][Len(nlog[t])].ok
               /\ Len(Orders(nlog[t])) = Len(nlog[t]) - 1
               /\ \A i \in 1..Len(nlog[t]) :
                    IsOrder(nlog[t][i]) => nlog[t][i].side = loc[t].side

C20_Witness ==
    /\ loc["Strategy1"].order = "None"
    /\ npc["Strategy1"] = "sleep"
    /\ Len(nlog["Strategy1"]) = 2
    /\ IsOrder(nlog["Strategy1"][2]) /\ ~nlog["Strategy1"][2].ok
    /\ nlog["Strategy1"][1].ok


\* C18: once stop() has cleared running, run() of the instance eventually
\* returns, wherever it was (first test, between port calls, in the hold
\* loop, in the sleep of the exception handler); every iteration of the hold
\* loop starts with bars_held below max_hold_bars and bars_held never exceeds
\* it, so the hold loop makes at most max_hold_bars iterations.
C18_StopEventuallyExits ==
    /\ [](\A t \in Threads :
            /\ loc[t].bars_held <= cfg[t].max_hold_bars
            /\ npc[t] \in {"holdticker", "trail"}
                   => loc[t].bars_held < cfg[t].max_hold_bars)
    /\ \A t \in {"Strategy1"} : (~running[t]) ~> (npc[t] = "exit")

C18_Witness ==
    /\ ~running["Strategy1"]
    /\ npc["Strategy1"] = "exit"


\* the instance other than t
OtherInstance(t) == CHOOSE u \in Threads : u # t

\* C17: with both instances running on SYMBOL, the entry order of an
\* instance (the second port call of its place_order) follows that
\* instance's own accepted leverage change and has the quantity line 130
\* computed with the instance's own leverage, while the leverage of SYMBOL at
\* the exchange when the order is created is the leverage of one of the two
\* instances, its own or the other's.  C17_Witness is the interleaving the
\* claim speaks of: the order of Strategy1, sized with leverage 10, accepted
\* while the exchange leverage is the 20 set by Strategy2.
C17_EntryUnderEitherLeverage ==
    \A t \in Threads :
        (Len(nlog[t]) >= 2)
            => LET change == nlog[t][1]
                   entry == nlog[t][2]
                   pct == cfg[t].position_size_percent
               IN  /\ change.op = "futures_change_leverage" /\ change.ok
                   /\ change.symbol = SYMBOL
                   /\ change.leverage = cfg[t].leverage
                   /\ IsOrder(entry) /\ entry.symbol = SYMBOL
                   /\ \E balance \in NullBalances, price \in NullPrices :
                        entry.quantity = Q(balance * pct.num * cfg[t].leverage,
                                           pct.den * price)
                   /\ entry.exchange_leverage
                        \in {Some(cfg[t].leverage),
                             Some(cfg[OtherInstance(t)].leverage)}

C17_Witness ==
    /\ Len(nlog["Strategy1"]) >= 2
    /\ nlog["Strategy1"][1].ok /\ nlog["Strategy1"][1].leverage = 10
    /\ IsOrder(nlog["Strategy1"][2]) /\ nlog["Strategy1"][2].ok
    /\ nlog["Strategy1"][2].quantity.num = 10000 * 1 * 10
    /\ nlog["Strategy1"][2].exchange_leverage = Some(20)
    /\ cfg["Strategy2"].leverage = 20
    /\ npc["Strategy2"] \notin {"new", "exit"}

=============================================================================
